---- MODULE Spec2Model ----
(***************************************************************************)
(* Replica reconciliation of the image catalog: the local replica kept in  *)
(* localStorage (client/src/syncUtils.ts), the POST /sync comparator of    *)
(* the server (app.post("/sync")) and the Gallery handlers that drive a     *)
(* round (client/src/Gallery.tsx).                                         *)
(*                                                                         *)
(* Times are integer milliseconds.  A server record's updatedAt travels as *)
(* an ISO-8601 string with millisecond precision and is read back with     *)
(* new Date(s).getTime(), which returns the same millisecond count, so a   *)
(* timestamp is carried as its millisecond count throughout.               *)
(* The body of an image record (filename, size, exif, ...) is abstracted   *)
(* to a revision number rev that every server-side update changes.         *)
(***************************************************************************)
EXTENDS Integers, Sequences, FiniteSets, TLC

\* Bounds of the model.
MaxEvents == 3    \* external events of one run: server writes by
                  \* any client, and the user's edits, deletes and sync clicks
MaxCalls == 2     \* syncWithServer invocations that can be outstanding at once
MaxApiId == 2     \* identifiers used when the syncUtils exports are called directly
MaxApiCalls == 2  \* direct calls of syncUtils exports in one run

VARIABLES
  now,        \* Date.now(), shared by client and server (same host)
  nextId,     \* the next identifier the database assigns (autoincrement)
  server,     \* the authoritative store: a set of records [id, updatedAt, rev]
  storage,    \* localStorage['voyis_local_images']
  lastSync,   \* localStorage['voyis_last_sync']: <<>> when absent, else <<t>>
  syncing,    \* Gallery's `syncing` state
  calls,      \* the outstanding syncWithServer invocations, by slot
  fetches,    \* the fetchImages() requests in flight; a request made by
              \* handleSync after a failed round carries, as history, the
              \* list that round had read
  deletes,    \* ids whose DELETE /images/:id succeeded, response not yet handled
  hist,       \* history: "marked" once markImagePending touched the id's entry,
              \* "won" once a round kept it against a newer server record,
              \* "none" after any other local operation on it
  events,     \* history: the number of external events so far
  quiet,      \* history: where the run stands between undisturbed rounds
  api         \* history: the last direct call of a syncUtils export, with its
              \* arguments and what it returned

vars == <<now, nextId, server, storage, lastSync, syncing, calls, fetches, deletes,
          hist, events, quiet, api>>

Ids == 1..MaxEvents
Slots == 1..MaxCalls

----------------------------------------------------------------------------
\* Sequence helpers (Array.prototype methods used by the code).

RECURSIVE findIndex(_, _, _)
\* items.findIndex(img => img.id === id), 1-based; 0 when there is none (JS: -1)
findIndex(items, id, from) ==
  IF from > Len(items) THEN 0
  ELSE IF items[from].id = id THEN from
  ELSE findIndex(items, id, from + 1)

RECURSIVE filterOutId(_, _)
\* items.filter(img => img.id !== id)
filterOutId(items, id) ==
  IF items = <<>> THEN <<>>
  ELSE IF Head(items).id = id THEN filterOutId(Tail(items), id)
  ELSE <<Head(items)>> \o filterOutId(Tail(items), id)

\* items.splice(idx, 1)
splice(items, idx) ==
  [i \in 1..(Len(items) - 1) |-> IF i < idx THEN items[i] ELSE items[i + 1]]

IdsOf(items) == {items[i].id : i \in 1..Len(items)}

\* All orders in which a set of records can be listed.
Perms(S) ==
  {p \in [1..Cardinality(S) -> S] : \A i, j \in 1..Cardinality(S) : p[i] = p[j] => i = j}

----------------------------------------------------------------------------
\* The local replica (client/src/syncUtils.ts).

AbsentKey == [json |-> "absent", items |-> <<>>]

\* parsed.map(img => ({...img, syncStatus: img.syncStatus || 'synced', ...})):
\* every entry with its defaults filled in.
withDefaults(items) ==
  [i \in 1..Len(items) |->
     [items[i] EXCEPT
        !.syncStatus = IF items[i].syncStatus = "" THEN "synced"
                       ELSE items[i].syncStatus]]

\* loadLocalImages without the Array.isArray test, the parsed value being
\* mapped whatever it is.
loadLocalImages_NoArrayCheck(raw) ==
  IF raw.json \in {"throws", "absent", "invalid"} THEN <<>>
  ELSE withDefaults(raw.items)

\* loadLocalImages.  The key's value raw is one of
\*   "throws"    getItem throws: the catch block returns [];
\*   "absent"    getItem returns null: `if (!stored) return []`;
\*   "invalid"   JSON.parse throws: the catch block returns [];
\*   "nonarray"  `if (!Array.isArray(parsed)) return []`;
\*   "array"     the entries, with their defaults filled in.
loadLocalImages(raw) ==
  IF raw.json # "array" THEN <<>>
  ELSE withDefaults(raw.items)

\* saveLocalImages: localStorage.setItem(KEY, JSON.stringify(images))
saveLocalImages(images) == [json |-> "array", items |-> images]

\* new Date(image.updatedAt || image.createdAt || Date.now()).getTime()
\* for an image the server built with buildImageResponse.
lastModifiedOf(image) == image.updatedAt

\* The entry updateLocalImage and the download loop of syncWithServer store.
SyncedImage(image) ==
  [id |-> image.id, updatedAt |-> image.updatedAt, rev |-> image.rev,
   lastModified |-> lastModifiedOf(image), syncStatus |-> "synced"]

\* upsert that pushes without looking for the id.
upsert_AlwaysPush(localImages, image) == Append(localImages, SyncedImage(image))

\* upsert that overwrites the first entry instead of the one it found.
upsert_OverwritesFirst(localImages, image) ==
  LET index == findIndex(localImages, image.id, 1) IN
  IF index >= 1 THEN [localImages EXCEPT ![1] = SyncedImage(image)]
  ELSE Append(localImages, SyncedImage(image))

\* upsert without its else branch: an image with a new id is not pushed.
upsert_NoPush(localImages, image) ==
  LET index == findIndex(localImages, image.id, 1) IN
  IF index >= 1 THEN [localImages EXCEPT ![index] = SyncedImage(image)]
  ELSE localImages

\* The body shared by updateLocalImage and the download loop: overwrite the
\* entry with the image's id, or append.
upsert(localImages, image) ==
  LET index == findIndex(localImages, image.id, 1) IN
  IF index >= 1 THEN [localImages EXCEPT ![index] = SyncedImage(image)]
  ELSE Append(localImages, SyncedImage(image))

updateLocalImage(raw, image) ==
  saveLocalImages(upsert(loadLocalImages(raw), image))

\* markImagePending with saveLocalImages moved out of the `if (image)`.
markImagePending_AlwaysSaves(raw, imageId, t) ==
  LET localImages == loadLocalImages(raw)
      index == findIndex(localImages, imageId, 1) IN
  IF index >= 1
  THEN saveLocalImages([localImages EXCEPT ![index].syncStatus = "pending",
                                           ![index].lastModified = t])
  ELSE saveLocalImages(localImages)

markImagePending(raw, imageId, t) ==
  LET localImages == loadLocalImages(raw)
      index == findIndex(localImages, imageId, 1) IN
  IF index >= 1
  THEN saveLocalImages([localImages EXCEPT ![index].syncStatus = "pending",
                                           ![index].lastModified = t])
  ELSE raw

\* removeLocalImage with the filter's test inverted (=== for !==).
removeLocalImage_Inverted(raw, imageId) ==
  LET keep(img) == img.id = imageId
  IN saveLocalImages(SelectSeq(loadLocalImages(raw), keep))

removeLocalImage(raw, imageId) ==
  saveLocalImages(filterOutId(loadLocalImages(raw), imageId))

\* localStorage.setItem inside try { } catch { console.error }: the key holds
\* the new value when the write is accepted and keeps the old one when
\* setItem throws (quota exceeded, storage denied).
setItem(old, new, accepted) == IF accepted THEN new ELSE old

\* A storage whose getItem throws refuses setItem too.
Writable(raw) == raw.json # "throws"

RECURSIVE toString(_)
\* Number.prototype.toString() of a non-negative integer: its decimal digits.
toString(n) == IF n < 10 THEN <<n>> ELSE toString(n \div 10) \o <<n % 10>>

RECURSIVE parseInt(_, _)
\* parseInt(stored, 10) of a string of decimal digits, acc the value so far.
parseInt(digits, acc) ==
  IF digits = <<>> THEN acc ELSE parseInt(Tail(digits), 10 * acc + Head(digits))

\* updateLastSyncTime writes Date.now().toString(); getLastSyncTime returns
\* null (<<>>) when the key is absent and parseInt(stored, 10) otherwise.
getLastSyncTime(ls) == IF ls = <<>> THEN <<>> ELSE <<parseInt(toString(ls[1]), 0)>>

countStatus(localImages, status) ==
  Cardinality({i \in 1..Len(localImages) : localImages[i].syncStatus = status})

\* getSyncStatus with the filter of `pending` copied for `conflicts`.
getSyncStatus_ConflictsArePending(raw, ls) ==
  LET localImages == loadLocalImages(raw) IN
  [pending |-> countStatus(localImages, "pending"),
   conflicts |-> countStatus(localImages, "pending"),
   lastSync |-> getLastSyncTime(ls),
   total |-> Len(localImages)]

getSyncStatus(raw, ls) ==
  LET localImages == loadLocalImages(raw) IN
  [pending |-> countStatus(localImages, "pending"),
   conflicts |-> countStatus(localImages, "conflict"),
   lastSync |-> getLastSyncTime(ls),
   total |-> Len(localImages)]

----------------------------------------------------------------------------
\* The remote comparator (the server's POST /sync handler).

\* buildImageResponse(img): the record as it is sent to the client.
buildImageResponse(img) == [id |-> img.id, updatedAt |-> img.updatedAt, rev |-> img.rev]

\* An entry or a summary that carries no id (the property is missing, or the
\* summary is null) has id = NoId; the ids the database assigns are positive.
NoId == 0 - 1

\* hasNumericId without the test: every summary passes the filter.
hasNumericId_Any(img) == TRUE

\* typeof img?.id === 'number'
hasNumericId(img) == img.id # NoId

\* new Map(localImages.filter(numeric id).map(img => [img.id, img])).get(id):
\* the index of the last summary with that id, 0 when there is none.
localMapGet(localImages, id) ==
  LET hits == {i \in 1..Len(localImages) :
                 hasNumericId(localImages[i]) /\ localImages[i].id = id} IN
  IF hits = {} THEN 0 ELSE CHOOSE i \in hits : \A j \in hits : j <= i

\* classify with the pending branch missing: a newer server record is sent
\* whatever the summary's status.
classify_ServerWins(acc, img, localImages) ==
  LET k == localMapGet(localImages, img.id) IN
  IF k = 0 \/ img.updatedAt > localImages[k].lastModified
  THEN [acc EXCEPT !.addedOrUpdated = Append(@, buildImageResponse(img))]
  ELSE acc

\* classify with >= for > in the pending branch.
classify_ConflictOnTie(acc, img, localImages) ==
  LET k == localMapGet(localImages, img.id) IN
  IF k = 0 THEN [acc EXCEPT !.addedOrUpdated = Append(@, buildImageResponse(img))]
  ELSE IF localImages[k].syncStatus = "pending"
       THEN IF img.updatedAt >= localImages[k].lastModified
            THEN [acc EXCEPT !.conflicts =
                    Append(@, [id |-> img.id, server |-> buildImageResponse(img),
                               serverUpdatedAt |-> img.updatedAt,
                               localLastModified |-> localImages[k].lastModified])]
            ELSE acc
       ELSE IF img.updatedAt > localImages[k].lastModified
            THEN [acc EXCEPT !.addedOrUpdated = Append(@, buildImageResponse(img))]
            ELSE acc

\* classify with >= for > in the branch of the summaries that are not pending.
classify_SyncedOnTie(acc, img, localImages) ==
  LET k == localMapGet(localImages, img.id) IN
  IF k = 0 THEN [acc EXCEPT !.addedOrUpdated = Append(@, buildImageResponse(img))]
  ELSE IF localImages[k].syncStatus = "pending"
       THEN IF img.updatedAt > localImages[k].lastModified
            THEN [acc EXCEPT !.conflicts =
                    Append(@, [id |-> img.id, server |-> buildImageResponse(img),
                               serverUpdatedAt |-> img.updatedAt,
                               localLastModified |-> localImages[k].lastModified])]
            ELSE acc
       ELSE IF img.updatedAt >= localImages[k].lastModified
            THEN [acc EXCEPT !.addedOrUpdated = Append(@, buildImageResponse(img))]
            ELSE acc

\* classify without the comparison of the timestamps in the pending branch.
classify_PendingAlwaysConflicts(acc, img, localImages) ==
  LET k == localMapGet(localImages, img.id) IN
  IF k = 0 THEN [acc EXCEPT !.addedOrUpdated = Append(@, buildImageResponse(img))]
  ELSE IF localImages[k].syncStatus = "pending"
       THEN [acc EXCEPT !.conflicts =
               Append(@, [id |-> img.id, server |-> buildImageResponse(img),
                          serverUpdatedAt |-> img.updatedAt,
                          localLastModified |-> localImages[k].lastModified])]
       ELSE IF img.updatedAt > localImages[k].lastModified
            THEN [acc EXCEPT !.addedOrUpdated = Append(@, buildImageResponse(img))]
            ELSE acc

\* One iteration of `for (const img of serverImages)`.
classify(acc, img, localImages) ==
  LET k == localMapGet(localImages, img.id)
      serverUpdatedAt == img.updatedAt
  IN
  IF k = 0 THEN [acc EXCEPT !.addedOrUpdated = Append(@, buildImageResponse(img))]
  ELSE
    LET local == localImages[k]
        localLastModified == local.lastModified
        localStatus == IF local.syncStatus = "" THEN "synced" ELSE local.syncStatus
    IN
    IF localStatus = "pending"
    THEN IF serverUpdatedAt > localLastModified
         THEN [acc EXCEPT !.conflicts =
                 Append(@, [id |-> img.id, server |-> buildImageResponse(img),
                            serverUpdatedAt |-> serverUpdatedAt,
                            localLastModified |-> localLastModified])]
         ELSE acc
    ELSE IF serverUpdatedAt > localLastModified
         THEN [acc EXCEPT !.addedOrUpdated = Append(@, buildImageResponse(img))]
         ELSE acc

RECURSIVE classifyAll_BreaksOnPending(_, _, _)
RECURSIVE classifyAll(_, _, _)
\* classifyAll with `break` for `continue` in the pending branch.
classifyAll_BreaksOnPending(acc, serverImages, localImages) ==
  IF serverImages = <<>> THEN acc
  ELSE LET k == localMapGet(localImages, Head(serverImages).id) IN
       IF k # 0 /\ localImages[k].syncStatus = "pending"
       THEN classify(acc, Head(serverImages), localImages)
       ELSE classifyAll_BreaksOnPending(classify(acc, Head(serverImages), localImages),
                                        Tail(serverImages), localImages)

\* for (const img of serverImages) { ... }
classifyAll(acc, serverImages, localImages) ==
  IF serverImages = <<>> THEN acc
  ELSE classifyAll(classify(acc, Head(serverImages), localImages),
                   Tail(serverImages), localImages)

\* isRemoved without the test of the status.
isRemoved_IgnoresStatus(img, serverIds) == hasNumericId(img) /\ img.id \notin serverIds

\* isRemoved with === 'synced' for !== 'pending'.
isRemoved_OnlySynced(img, serverIds) ==
  hasNumericId(img) /\ img.id \notin serverIds /\ img.syncStatus = "synced"

\* The two filters that decide whether a summary's id is reported as removed.
isRemoved(img, serverIds) ==
  hasNumericId(img) /\ img.id \notin serverIds /\ img.syncStatus # "pending"

RECURSIVE removedIds(_, _)
removedIds(localImages, serverIds) ==
  IF localImages = <<>> THEN <<>>
  ELSE IF isRemoved(Head(localImages), serverIds)
       THEN <<Head(localImages).id>> \o removedIds(Tail(localImages), serverIds)
       ELSE removedIds(Tail(localImages), serverIds)

\* The body of a 200 response of POST /sync.
syncEndpoint(serverImages, localImages) ==
  LET acc == classifyAll([addedOrUpdated |-> <<>>, conflicts |-> <<>>],
                         serverImages, localImages)
  IN [addedOrUpdated |-> acc.addedOrUpdated,
      removed |-> removedIds(localImages, IdsOf(serverImages)),
      conflicts |-> acc.conflicts]

----------------------------------------------------------------------------
\* The sync coordinator (client/src/syncUtils.ts, syncWithServer).

\* payload.localImages: the summaries sent to the comparator.
payloadOf(localImages) ==
  [i \in 1..Len(localImages) |->
     [id |-> localImages[i].id, lastModified |-> localImages[i].lastModified,
      syncStatus |-> localImages[i].syncStatus]]

RECURSIVE applyAddedOrUpdated(_, _)
\* for (const image of addedOrUpdated) { ... }
applyAddedOrUpdated(localImages, addedOrUpdated) ==
  IF addedOrUpdated = <<>> THEN localImages
  ELSE applyAddedOrUpdated(upsert(localImages, Head(addedOrUpdated)), Tail(addedOrUpdated))

RECURSIVE applyRemoved(_, _)
\* for (const id of removed) { ... }
applyRemoved(localImages, removed) ==
  IF removed = <<>> THEN localImages
  ELSE LET idx == findIndex(localImages, Head(removed), 1) IN
       applyRemoved(IF idx >= 1 THEN splice(localImages, idx) ELSE localImages,
                    Tail(removed))

\* resolvePending left out.
resolvePending_Skipped(localImages) == localImages

\* resolvePending that writes 'conflict' where it should write 'synced'.
resolvePending_FlagsConflict(localImages) ==
  [i \in 1..Len(localImages) |->
     IF localImages[i].syncStatus = "pending"
     THEN [localImages[i] EXCEPT !.syncStatus = "conflict"]
     ELSE localImages[i]]

\* localImages.forEach(img => { if pending: synced })
resolvePending(localImages) ==
  [i \in 1..Len(localImages) |->
     IF localImages[i].syncStatus = "pending"
     THEN [localImages[i] EXCEPT !.syncStatus = "synced"]
     ELSE localImages[i]]

countPending(localImages) ==
  Cardinality({i \in 1..Len(localImages) : localImages[i].syncStatus = "pending"})

\* error.message || 'Sync failed': never the empty string.  The message is
\* represented by the kind of the failure.
NoResponse == [kind |-> "none", serverImages |-> <<>>,
               body |-> [addedOrUpdated |-> <<>>, removed |-> <<>>, conflicts |-> <<>>]]

InitialResult == [success |-> TRUE, uploaded |-> 0, downloaded |-> 0, conflicts |-> 0,
                  error |-> ""]

\* syncWithServerResume with the save and the marker moved into a finally
\* block: they run on the failure path too.
syncWithServerResume_SavesOnFailure(localImages, response, raw, ls, t) ==
  IF response.kind \in {"rejected", "notok", "unparseable"}
  THEN [storage |-> saveLocalImages(resolvePending(localImages)), lastSync |-> <<t>>,
        result |-> [InitialResult EXCEPT !.success = FALSE, !.error = response.kind]]
  ELSE IF response.kind = "badshape"
  THEN [storage |-> saveLocalImages(resolvePending(localImages)), lastSync |-> <<t>>,
        result |-> [InitialResult EXCEPT
                      !.success = FALSE, !.error = response.kind,
                      !.downloaded = Len(response.body.addedOrUpdated)]]
  ELSE
    LET downloaded == applyAddedOrUpdated(localImages, response.body.addedOrUpdated)
        pruned == applyRemoved(downloaded, response.body.removed)
    IN [storage |-> saveLocalImages(resolvePending(pruned)),
        lastSync |-> <<t>>,
        result |-> [InitialResult EXCEPT
                      !.downloaded = Len(response.body.addedOrUpdated),
                      !.uploaded = countPending(pruned),
                      !.conflicts = Len(response.body.conflicts)]]

\* syncWithServer from the point where `await fetch(...)` settles: what it
\* leaves in the two storage keys and what it returns.  localImages is the
\* list read before the request; raw and ls are the keys' current values.
\* The response is one of
\*   "rejected"     fetch rejects;
\*   "notok"        response.ok is false: the throw of line 161;
\*   "unparseable"  response.json() rejects;
\*   "badshape"     the body parses, addedOrUpdated is a list of images and
\*                  removed is not iterable: `for (const id of removed)` throws
\*                  after the download loop has counted addedOrUpdated;
\*   "ok"           the body has the three lists.
\* Every throw lands in the catch block, which returns the result as counted
\* so far with success = false.
syncWithServerResume(localImages, response, raw, ls, t) ==
  IF response.kind \in {"rejected", "notok", "unparseable"}
  THEN [storage |-> raw, lastSync |-> ls,
        result |-> [InitialResult EXCEPT !.success = FALSE, !.error = response.kind]]
  ELSE IF response.kind = "badshape"
  THEN [storage |-> raw, lastSync |-> ls,
        result |-> [InitialResult EXCEPT
                      !.success = FALSE, !.error = response.kind,
                      !.downloaded = Len(response.body.addedOrUpdated)]]
  ELSE
    LET downloaded == applyAddedOrUpdated(localImages, response.body.addedOrUpdated)
        pruned == applyRemoved(downloaded, response.body.removed)
    IN [storage |-> saveLocalImages(resolvePending(pruned)),
        lastSync |-> <<t>>,
        result |-> [InitialResult EXCEPT
                      !.downloaded = Len(response.body.addedOrUpdated),
                      !.uploaded = countPending(pruned),
                      !.conflicts = Len(response.body.conflicts)]]

\* handleSync without its guard.
handleSyncGuard_Absent(flag) == TRUE

\* Gallery.handleSync's reentrancy guard: `if (syncing) return;`
handleSyncGuard(flag) == ~flag

\* handleSync with setSyncing(false) at the end of the try block, after the
\* message of a successful round, instead of in the finally block.
setSyncingFinally_AfterSuccess(result) == ~result.success

\* handleSync's `finally { setSyncing(false); ... }`: the value of syncing
\* after a round that returned result.
setSyncingFinally(result) == FALSE

----------------------------------------------------------------------------
\* The state machine.

IdleCall == [pc |-> "idle", localImages |-> <<>>, response |-> NoResponse,
             result |-> InitialResult]

\* GET /images: findMany({orderBy: {createdAt: "desc"}}); identifiers are
\* assigned in creation order.
RECURSIVE listImages(_)
listImages(S) ==
  IF S = {} THEN <<>>
  ELSE LET newest == CHOOSE r \in S : \A q \in S : q.id <= r.id
       IN <<buildImageResponse(newest)>> \o listImages(S \ {newest})

RECURSIVE updateLocalImages(_, _)
\* data.forEach((img) => updateLocalImage(img))
updateLocalImages(raw, data) ==
  IF data = <<>> THEN raw
  ELSE updateLocalImages(updateLocalImage(raw, Head(data)), Tail(data))

\* No export of syncUtils has been called directly.  For a call, arg is
\* what it was given, ret what it returned and writes the values it passed
\* to localStorage.setItem.
NoApiCall == [op |-> "none", arg |-> <<>>, ret |-> <<>>, writes |-> <<>>]

\* fetch("http://localhost:4000/images") of fetchImages.
GetImages == [request |-> "GET /images", afterFailed |-> <<>>]

\* A continuation of handleSync runs right after syncWithServer returns,
\* before the event loop takes any other client event.
NoneReturned == \A c \in Slots : calls[c].pc # "returned"

\* The image the catalog may hold when the application starts, and the entry
\* the replica may hold for it from an earlier session.
FirstImage == [id |-> 1, updatedAt |-> 0, rev |-> 1]

Init ==
  /\ now = 0
  /\ \/ /\ nextId = 1 /\ server = {}                  \* an empty catalog
        /\ storage = AbsentKey
        /\ hist = [i \in Ids |-> "none"]
     \/ /\ nextId = 2 /\ server = {FirstImage}         \* a catalog that holds an image
        /\ \/ /\ storage = AbsentKey                   \* first start
              /\ hist = [i \in Ids |-> "none"]
           \/ /\ storage = updateLocalImage(AbsentKey, FirstImage)
              /\ hist = [i \in Ids |-> "none"]
           \/ /\ storage = markImagePending(updateLocalImage(AbsentKey, FirstImage), 1, 0)
              /\ hist = [i \in Ids |-> IF i = 1 THEN "marked" ELSE "none"]
  /\ lastSync = <<>>
  /\ syncing = FALSE
  /\ calls = [c \in Slots |-> IdleCall]
  /\ fetches = <<GetImages>>         \* the fetchImages() on mount
  /\ deletes = {}
  /\ events = 0
  /\ quiet = "disturbed"
  /\ api = NoApiCall

\* The clock is observed only where Date.now() (or the database's now()) is
\* read: time passes, or does not, between two readings.  It advances at most
\* once per external event: n is the number of events, this one included.
ClockReadings(n) == {t \in {now, now + 1} : t <= n}

\* POST /upload by any client: prisma.image.create.
ServerCreate ==
  /\ events < MaxEvents
  /\ events' = events + 1
  /\ \E t \in ClockReadings(events + 1) :
       /\ now' = t
       /\ server' = server \cup {[id |-> nextId, updatedAt |-> t, rev |-> 1]}
  /\ nextId' = nextId + 1
  /\ UNCHANGED <<api, storage, lastSync, syncing, calls, fetches, deletes, hist>>
  /\ quiet' = "disturbed"

\* PUT /images/:id by any client: prisma.image.update, updatedAt = now.
ServerUpdate(id) ==
  /\ events < MaxEvents
  /\ events' = events + 1
  /\ \E r \in server, t \in ClockReadings(events + 1) :
       /\ r.id = id
       /\ now' = t
       /\ server' = (server \ {r}) \cup {[id |-> id, updatedAt |-> t, rev |-> r.rev + 1]}
  /\ hist' = [hist EXCEPT ![id] = IF @ = "won" THEN "marked" ELSE @]
  /\ UNCHANGED <<api, nextId, storage, lastSync, syncing, calls, fetches, deletes>>
  /\ quiet' = "disturbed"

\* Gallery.handleDelete up to its `await fetch(..., {method: "DELETE"})`:
\* the server deletes the record and answers 200.
HandleDelete(id) ==
  /\ events < MaxEvents
  /\ events' = events + 1
  /\ NoneReturned
  /\ id \notin deletes
  /\ \E r \in server : r.id = id /\ server' = server \ {r}
  /\ deletes' = deletes \cup {id}
  /\ hist' = [hist EXCEPT ![id] = IF @ = "won" THEN "marked" ELSE @]
  /\ UNCHANGED <<api, now, nextId, storage, lastSync, syncing, calls, fetches>>
  /\ quiet' = "disturbed"

\* The rest of handleDelete: removeLocalImage(id); fetchImages().
HandleDeleteDone(id) ==
  /\ NoneReturned
  /\ id \in deletes
  /\ storage' = removeLocalImage(storage, id)
  /\ fetches' = Append(fetches, GetImages)
  /\ deletes' = deletes \ {id}
  /\ hist' = [hist EXCEPT ![id] = "none"]
  /\ UNCHANGED <<api, now, nextId, server, lastSync, syncing, calls, events>>
  /\ quiet' = IF storage' # storage THEN "disturbed" ELSE quiet

\* The DELETE response does not arrive (handleDelete's catch), or the record
\* was deleted by another client: the replica is not told.
HandleDeleteLost(id) ==
  /\ id \in deletes
  /\ deletes' = deletes \ {id}
  /\ UNCHANGED <<api, now, nextId, server, storage, lastSync, syncing, calls, fetches, hist, events>>
  /\ quiet' = quiet

\* GET /images is served and fetchImages' .then runs: updateLocalImage for
\* every record of the response.  (The response is taken as handled as soon
\* as the server has read the records.)
FetchImagesDone(i) ==
  /\ NoneReturned
  /\ storage' = updateLocalImages(storage, listImages(server))
  /\ fetches' = splice(fetches, i)
  /\ hist' = [id \in Ids |-> IF id \in IdsOf(listImages(server)) THEN "none" ELSE hist[id]]
  /\ UNCHANGED <<api, now, nextId, server, lastSync, syncing, calls, deletes, events>>
  /\ quiet' = IF storage' # storage THEN "disturbed" ELSE quiet

\* fetchImages' .catch: the request failed.
FetchImagesFail(i) ==
  /\ NoneReturned
  /\ fetches' = splice(fetches, i)
  /\ UNCHANGED <<api, now, nextId, server, storage, lastSync, syncing, calls, deletes, hist, events>>
  /\ quiet' = quiet

\* A local edit: markImagePending(id).
MarkImagePending(id) ==
  /\ events < MaxEvents
  /\ events' = events + 1
  /\ NoneReturned
  /\ \E t \in ClockReadings(events + 1) :
       /\ now' = t
       /\ storage' = markImagePending(storage, id, t)
  /\ hist' = [hist EXCEPT ![id] = IF id \in IdsOf(loadLocalImages(storage))
                                  THEN "marked" ELSE @]
  /\ UNCHANGED <<api, nextId, server, lastSync, syncing, calls, fetches, deletes>>
  /\ quiet' = IF storage' # storage THEN "disturbed" ELSE quiet

\* Gallery.handleSync up to syncWithServer's `await fetch(...)`: the guard,
\* setSyncing(true), loadLocalImages() and the request.
HandleSync ==
  /\ events < MaxEvents
  /\ events' = events + 1
  /\ NoneReturned
  /\ handleSyncGuard(syncing)
  /\ \E c \in Slots :
       /\ calls[c].pc = "idle"
       /\ \A d \in Slots : calls[d].pc = "idle" => c <= d
       /\ calls' = [calls EXCEPT ![c] = [IdleCall EXCEPT
                                           !.pc = "sent",
                                           !.localImages = loadLocalImages(storage)]]
  /\ syncing' = TRUE
  /\ UNCHANGED <<api, now, nextId, server, storage, lastSync, fetches, deletes, hist>>
  /\ quiet' = IF quiet \in {"afterFirst", "afterSecond"} THEN "inSecond" ELSE "inFirst"

\* POST /sync is served: findMany() returns the records in some order.
ServerSync(c) ==
  /\ calls[c].pc = "sent"
  /\ \E serverImages \in Perms(server) :
       calls' = [calls EXCEPT ![c].pc = "responded",
                              ![c].response =
                                 [kind |-> "ok", serverImages |-> serverImages,
                                  body |-> syncEndpoint(serverImages,
                                                        payloadOf(calls[c].localImages))]]
  /\ UNCHANGED <<api, now, nextId, server, storage, lastSync, syncing, fetches, deletes, hist, events>>
  /\ quiet' = quiet

\* The transmission fails: fetch rejects, or the response is not ok.
TransportFail(c) ==
  /\ calls[c].pc = "sent"
  /\ \E kind \in {"rejected", "notok"} :
       calls' = [calls EXCEPT ![c].pc = "responded",
                              ![c].response = [NoResponse EXCEPT !.kind = kind]]
  /\ UNCHANGED <<api, now, nextId, server, storage, lastSync, syncing, fetches, deletes, hist, events>>
  /\ quiet' = quiet

\* Ids whose pending entry the round resolved while reporting a conflict.
WonConflict(c) ==
  {id \in Ids :
     /\ calls[c].response.kind = "ok"
     /\ \E k \in 1..Len(calls[c].response.body.conflicts) :
          calls[c].response.body.conflicts[k].id = id
     /\ \E k \in 1..Len(calls[c].localImages) :
          /\ calls[c].localImages[k].id = id
          /\ hist[id] = "marked"
          /\ k \in 1..Len(loadLocalImages(storage))
          /\ loadLocalImages(storage)[k] = calls[c].localImages[k]}

\* syncWithServer resumes, applies the response and returns.
SyncResume(c) ==
  /\ calls[c].pc = "responded"
  /\ \E t \in ClockReadings(events) :
     LET out == syncWithServerResume(calls[c].localImages, calls[c].response,
                                     storage, lastSync, t)
     IN /\ now' = t
        /\ storage' = out.storage
        /\ lastSync' = out.lastSync
        /\ calls' = [calls EXCEPT ![c].pc = "returned", ![c].result = out.result]
  /\ hist' = [id \in Ids |-> IF id \in WonConflict(c) THEN "won" ELSE hist[id]]
  /\ UNCHANGED <<api, nextId, server, syncing, fetches, deletes, events>>
  /\ quiet' = IF calls'[c].result.success /\ quiet = "inFirst" THEN "afterFirst"
             ELSE IF calls'[c].result.success /\ quiet = "inSecond" THEN "afterSecond"
             ELSE "disturbed"

\* handleSync after `await syncWithServer()`: fetchImages(), then the finally
\* block's setSyncing(false).
HandleSyncFinish(c) ==
  /\ calls[c].pc = "returned"
  /\ fetches' = Append(fetches,
                        IF calls[c].result.success THEN GetImages
                        ELSE [GetImages EXCEPT !.afterFailed = <<calls[c].localImages>>])
  /\ syncing' = setSyncingFinally(calls[c].result)
  /\ calls' = [calls EXCEPT ![c] = IdleCall]
  /\ UNCHANGED <<api, now, nextId, server, storage, lastSync, deletes, hist, events>>
  /\ quiet' = quiet

\* The identifiers handed out so far.
KnownIds == 1..(nextId - 1)

Next ==
  \/ ServerCreate
  \/ \E id \in KnownIds : ServerUpdate(id)
  \/ \E id \in KnownIds : HandleDelete(id)
  \/ \E id \in KnownIds : HandleDeleteDone(id)
  \/ \E id \in KnownIds : HandleDeleteLost(id)
  \/ \E i \in 1..Len(fetches) : FetchImagesDone(i)
  \/ \E i \in 1..Len(fetches) : FetchImagesFail(i)
  \/ \E id \in KnownIds : MarkImagePending(id)
  \/ HandleSync
  \/ \E c \in Slots : ServerSync(c)
  \/ \E c \in Slots : TransportFail(c)
  \/ \E c \in Slots : SyncResume(c)
  \/ \E c \in Slots : HandleSyncFinish(c)

Spec == Init /\ [][Next]_vars

\* The scheduling of a round: the fetch of POST /sync settles (the transport
\* answers or fails), the continuation of an awaited promise that has
\* settled is run, and so is the rest of handleSync with its finally block.
\* Nothing is assumed of the user, of the catalog or of GET /images.
SpecLive ==
  /\ Spec
  /\ WF_vars(\E c \in Slots : ServerSync(c) \/ TransportFail(c))
  /\ WF_vars(\E c \in Slots : SyncResume(c))
  /\ WF_vars(\E c \in Slots : HandleSyncFinish(c))

----------------------------------------------------------------------------
\* The exports of syncUtils called directly, one after the other, on keys
\* that hold anything a browser may hand back, and with a POST /sync peer
\* that may answer anything.  The calls are synchronous except syncWithServer,
\* which is taken from its load to its return with no other call in between.

ApiIds == 1..MaxApiId

\* An entry stored by an earlier session, at time 0.
ApiStored(id, status) ==
  [id |-> id, updatedAt |-> 0, rev |-> 1, lastModified |-> 0, syncStatus |-> status]

\* 'synced' | 'pending' | 'conflict', or no syncStatus property at all.
SyncStatuses == {"synced", "pending", "conflict", ""}

\* What localStorage may hold under the images key: nothing, text that is not
\* JSON, JSON that is not an array (here the object {"0": entry}), a storage
\* whose getItem throws, or an array of entries without duplicate ids.
ApiInitialKeys ==
  {AbsentKey,
   [json |-> "invalid", items |-> <<>>],
   [json |-> "throws", items |-> <<>>],
   [json |-> "nonarray", items |-> <<ApiStored(1, "synced")>>]}
  \cup {[json |-> "array", items |-> <<ApiStored(1, st)>>] : st \in SyncStatuses}
  \cup {[json |-> "array", items |-> <<ApiStored(2, "synced"), ApiStored(1, "pending")>>]}

\* The clock shows a time whose decimal string has more than one digit.
InitApi ==
  /\ now = 12
  /\ nextId = 1
  /\ server = {}
  /\ storage \in ApiInitialKeys
  /\ lastSync = <<>>
  /\ syncing = FALSE
  /\ calls = [c \in Slots |-> IdleCall]
  /\ fetches = <<>>
  /\ deletes = {}
  /\ hist = [i \in Ids |-> "none"]
  /\ events = 0
  /\ quiet = "disturbed"
  /\ api = NoApiCall

\* The images a caller passes: updated at an earlier time or just now.
ApiImages == [id : ApiIds, updatedAt : {0, now}, rev : {2}]

UnchangedByApi == UNCHANGED <<now, nextId, server, syncing, calls, fetches, deletes,
                              hist, quiet>>

ApiUpdateLocalImage(image) ==
  /\ events < MaxApiCalls
  /\ events' = events + 1
  /\ storage' = setItem(storage, updateLocalImage(storage, image), Writable(storage))
  /\ api' = [op |-> "updateLocalImage", arg |-> <<image>>, ret |-> <<>>,
             writes |-> <<updateLocalImage(storage, image)>>]
  /\ UNCHANGED lastSync
  /\ UnchangedByApi

ApiMarkImagePending(imageId) ==
  /\ events < MaxApiCalls
  /\ events' = events + 1
  /\ storage' = setItem(storage, markImagePending(storage, imageId, now), Writable(storage))
  /\ api' = [op |-> "markImagePending", arg |-> <<imageId>>, ret |-> <<>>,
             writes |-> IF imageId \in IdsOf(loadLocalImages(storage))
                        THEN <<markImagePending(storage, imageId, now)>> ELSE <<>>]
  /\ UNCHANGED lastSync
  /\ UnchangedByApi

ApiRemoveLocalImage(imageId) ==
  /\ events < MaxApiCalls
  /\ events' = events + 1
  /\ storage' = setItem(storage, removeLocalImage(storage, imageId), Writable(storage))
  /\ api' = [op |-> "removeLocalImage", arg |-> <<imageId>>, ret |-> <<>>,
             writes |-> <<removeLocalImage(storage, imageId)>>]
  /\ UNCHANGED lastSync
  /\ UnchangedByApi

ApiLoadLocalImages ==
  /\ events < MaxApiCalls
  /\ events' = events + 1
  /\ api' = [op |-> "loadLocalImages", arg |-> <<>>, ret |-> <<loadLocalImages(storage)>>,
             writes |-> <<>>]
  /\ UNCHANGED <<storage, lastSync>>
  /\ UnchangedByApi

ApiGetSyncStatus ==
  /\ events < MaxApiCalls
  /\ events' = events + 1
  /\ api' = [op |-> "getSyncStatus", arg |-> <<>>, ret |-> <<getSyncStatus(storage, lastSync)>>,
             writes |-> <<>>]
  /\ UNCHANGED <<storage, lastSync>>
  /\ UnchangedByApi

\* What a peer may put in addedOrUpdated: at most two images, updated just
\* now, in ascending order of id; the same id may come twice.
ApiFresh == [id : ApiIds, updatedAt : {now}, rev : {3}]
ApiBatches ==
  {<<>>} \cup {<<a>> : a \in ApiFresh}
         \cup {p \in ApiFresh \X ApiFresh : p[1].id <= p[2].id}

\* ... in removed: at most one id.
ApiRemoved == {<<>>} \cup {<<id>> : id \in ApiIds}

\* ... in conflicts: nothing, or an entry (the entry is put in the bodies
\* whose handling stops before the conflicts are counted).
ApiConflicts ==
  {<<>>, <<[id |-> 1, server |-> [id |-> 1, updatedAt |-> now, rev |-> 3],
           serverUpdatedAt |-> now, localLastModified |-> 0]>>}

\* The ways the POST /sync call can end.
ApiResponses ==
  {[NoResponse EXCEPT !.kind = k] : k \in {"rejected", "notok", "unparseable"}}
  \cup {[kind |-> "badshape", serverImages |-> <<>>,
         body |-> [addedOrUpdated |-> b, removed |-> <<>>, conflicts |-> c]] :
          b \in ApiBatches, c \in ApiConflicts}
  \cup {[kind |-> "ok", serverImages |-> <<>>,
         body |-> [addedOrUpdated |-> b, removed |-> r, conflicts |-> <<>>]] :
          b \in ApiBatches, r \in ApiRemoved}

\* The list names an id more than once.
RepeatsId(items) == \E i, j \in 1..Len(items) : i < j /\ items[i].id = items[j].id

\* syncWithServer(): saved and stamped tell whether the setItem of
\* saveLocalImages and the one of updateLastSyncTime are accepted (the two
\* calls are made for an "ok" response only).
ApiSyncWithServerOf(responses) ==
  /\ events < MaxApiCalls
  /\ events' = events + 1
  /\ \E response \in responses :
     \E saved, stamped \in (IF response.kind = "ok" THEN BOOLEAN ELSE {TRUE}) :
       LET out == syncWithServerResume(loadLocalImages(storage), response,
                                       storage, lastSync, now)
       IN /\ storage' = setItem(storage, out.storage, saved /\ Writable(storage))
          /\ lastSync' = setItem(lastSync, out.lastSync, stamped /\ Writable(storage))
          /\ api' = [op |-> "syncWithServer",
                     arg |-> <<response.kind, RepeatsId(response.body.addedOrUpdated),
                               NoId \in IdsOf(response.body.addedOrUpdated)>>,
                     ret |-> <<out.result>>,
                     writes |-> IF response.kind = "ok"
                                THEN <<out.storage, out.lastSync>> ELSE <<>>]
  /\ UnchangedByApi

ApiSyncWithServer == ApiSyncWithServerOf(ApiResponses)

NextApi ==
  \/ \E image \in ApiImages : ApiUpdateLocalImage(image)
  \/ \E imageId \in ApiIds : ApiMarkImagePending(imageId)
  \/ \E imageId \in ApiIds : ApiRemoveLocalImage(imageId)
  \/ ApiLoadLocalImages
  \/ ApiGetSyncStatus
  \/ ApiSyncWithServer

SpecApi == InitApi /\ [][NextApi]_vars

----------------------------------------------------------------------------
\* syncWithServer against a peer whose addedOrUpdated list holds a record
\* without an id, between local edits.

\* A record the peer sends without its id.
ApiAnonymous == [id |-> NoId, updatedAt |-> now, rev |-> 3]

\* The lists with such a record: alone, twice, or next to a record with an id.
AnomalousBatches ==
  {<<ApiAnonymous>>, <<ApiAnonymous, ApiAnonymous>>}
  \cup {<<ApiAnonymous, a>> : a \in ApiFresh}
  \cup {<<a, ApiAnonymous>> : a \in ApiFresh}

AnomalousResponses ==
  {[kind |-> "ok", serverImages |-> <<>>,
    body |-> [addedOrUpdated |-> b, removed |-> r, conflicts |-> <<>>]] :
     b \in AnomalousBatches, r \in ApiRemoved}

ApiSyncWithAnomaly == ApiSyncWithServerOf(AnomalousResponses)

NextAnomaly ==
  \/ ApiSyncWithAnomaly
  \/ \E imageId \in ApiIds : ApiMarkImagePending(imageId)
  \/ ApiLoadLocalImages

SpecAnomaly == InitApi /\ [][NextAnomaly]_vars

----------------------------------------------------------------------------
\* The comparator called directly: POST /sync of a server whose catalog holds
\* any of the images, by a client whose replica holds any entries, the
\* summaries in any order.

\* The catalogs: any of the images, each updated at time 1.
SyncCatalogs == SUBSET {[id |-> i, updatedAt |-> 1, rev |-> 1] : i \in ApiIds}

\* The entries a posting client may hold: modified before, at or after the
\* time the server's record was updated, with any status; an entry may have
\* no id (its summary is then sent without one).
SyncEntries ==
  [id : ApiIds \cup {NoId}, updatedAt : {0}, rev : {1}, lastModified : 0..2,
   syncStatus : {"synced", "pending", "conflict"}]

\* The replicas: up to two entries, no id twice.
SyncReplicas ==
  {<<>>} \cup {<<a>> : a \in SyncEntries}
         \cup {p \in SyncEntries \X SyncEntries : p[1].id # p[2].id}

InitSync ==
  /\ now = 1
  /\ nextId = 1
  /\ server \in SyncCatalogs
  /\ storage \in {[json |-> "array", items |-> items] : items \in SyncReplicas}
  /\ lastSync = <<>>
  /\ syncing = FALSE
  /\ calls = [c \in Slots |-> IdleCall]
  /\ fetches = <<>>
  /\ deletes = {}
  /\ hist = [i \in Ids |-> "none"]
  /\ events = 0
  /\ quiet = "disturbed"
  /\ api = NoApiCall

\* All orders in which the elements of a list can be sent.
PermSeqs(seq) ==
  {[i \in 1..Len(seq) |-> seq[p[i]]] : p \in Perms(1..Len(seq))}

UnchangedByPost == UNCHANGED <<now, nextId, server, storage, lastSync, syncing, calls,
                               fetches, deletes, hist, events, quiet>>

\* app.post("/sync") with an array of summaries, the store answering.
PostSync ==
  /\ \E localImages \in PermSeqs(payloadOf(loadLocalImages(storage))) :
       \E serverImages \in Perms(server) :
         api' = [op |-> "POST /sync", arg |-> <<localImages, serverImages>>,
                 ret |-> <<[status |-> 200,
                            body |-> syncEndpoint(serverImages, localImages)]>>,
                 writes |-> <<>>]
  /\ UnchangedByPost

\* app.post("/sync") with a body whose localImages is not an array.
PostSyncNotArray ==
  /\ api' = [op |-> "POST /sync", arg |-> <<>>,
             ret |-> <<[status |-> 400, body |-> "localImages must be an array"]>>,
             writes |-> <<>>]
  /\ UnchangedByPost

\* app.post("/sync") when prisma.image.findMany() rejects.
PostSyncStoreFails ==
  /\ \E localImages \in PermSeqs(payloadOf(loadLocalImages(storage))) :
       api' = [op |-> "POST /sync", arg |-> <<localImages>>,
               ret |-> <<[status |-> 500, body |-> "Failed to sync"]>>,
               writes |-> <<>>]
  /\ UnchangedByPost

NextSync ==
  \/ PostSync
  \/ PostSyncNotArray
  \/ PostSyncStoreFails

SpecSync == InitSync /\ [][NextSync]_vars

----------------------------------------------------------------------------
\* Properties.

Replica == loadLocalImages(storage)

\* The entries of a list that carry an id (none, or one).
Entries(items, id) == {items[i] : i \in {j \in 1..Len(items) : items[j].id = id}}

\* What of an entry is the image itself.
Content(entry) == [id |-> entry.id, updatedAt |-> entry.updatedAt, rev |-> entry.rev]

Returned(c) == calls[c].pc = "returned"
Succeeded(c) == Returned(c) /\ calls[c].result.success
Failed(c) == Returned(c) /\ ~calls[c].result.success

\* The steps of one syncWithServer call.
StartStep(c) == calls[c].pc = "idle" /\ calls'[c].pc = "sent"
AnswerStep(c) == calls[c].pc = "sent" /\ calls'[c].pc = "responded"
ResumeStep(c) == calls[c].pc = "responded" /\ calls'[c].pc = "returned"

\* The entries of the list a call read that were pending.
PendingAtStart(c) ==
  {calls[c].localImages[k] : k \in {j \in 1..Len(calls[c].localImages) :
                                      calls[c].localImages[j].syncStatus = "pending"}}

\* C1: when the POST /sync call fails (fetch rejects, or the response is not
\* ok), syncWithServer returns success = false, and no step of the call
\* changes the images key or the lastSync key.
C1_FailedRoundLeavesStorage ==
  [][\A c \in Slots :
       /\ (StartStep(c) \/ AnswerStep(c)) => storage' = storage /\ lastSync' = lastSync
       /\ (ResumeStep(c) /\ calls[c].response.kind # "ok") =>
            /\ ~calls'[c].result.success
            /\ storage' = storage
            /\ lastSync' = lastSync]_vars

\* A failed round has returned while the replica holds a pending entry.
C1_Witness ==
  \E c \in Slots : Failed(c) /\ countPending(Replica) > 0

\* C3: a record that is pending when a round starts is not in addedOrUpdated,
\* and after the round the replica holds it with the same content.
C3_PendingNotReplaced ==
  \A c \in Slots : Succeeded(c) =>
    \A e \in PendingAtStart(c) :
      /\ e.id \notin IdsOf(calls[c].response.body.addedOrUpdated)
      /\ \E f \in Entries(Replica, e.id) :
           Content(f) = Content(e) /\ f.lastModified = e.lastModified

\* A round has succeeded for a pending entry whose server record is another,
\* newer revision.
C3_Witness ==
  \E c \in Slots : Succeeded(c) /\
    \E e \in PendingAtStart(c) :
      \E r \in Entries(calls[c].response.serverImages, e.id) :
        r.rev # e.rev /\ r.updatedAt > e.lastModified

\* C4: at most one syncWithServer call is outstanding at any time.
C4_OneRoundInFlight ==
  Cardinality({c \in Slots : calls[c].pc # "idle"}) <= 1

\* A call is outstanding and the user could click again.
C4_Witness ==
  syncing /\ events < MaxEvents /\ \E c \in Slots : calls[c].pc = "sent"

\* C2: a successful round that follows a successful round, with no local or
\* remote mutation since the first one started, returns downloaded = 0,
\* uploaded = 0 and conflicts = 0.
C2_SecondRoundReportsNothing ==
  \A c \in Slots : (Succeeded(c) /\ quiet = "afterSecond") =>
    /\ calls[c].result.downloaded = 0
    /\ calls[c].result.uploaded = 0
    /\ calls[c].result.conflicts = 0

\* C5: an entry that a local operation changed, added or removed while the
\* round was suspended, and that the response does not name, is after the
\* round what the local operation left (a pending one resolved to synced):
\* the round does not write the list it read earlier over it.
C5_RoundKeepsInterleavedMutations ==
  [][\A c \in Slots : (ResumeStep(c) /\ calls[c].response.kind = "ok") =>
       \A id \in Ids :
         ( /\ Entries(Replica, id) # Entries(calls[c].localImages, id)
           /\ id \notin IdsOf(calls[c].response.body.addedOrUpdated)
           /\ \A k \in 1..Len(calls[c].response.body.removed) :
                calls[c].response.body.removed[k] # id )
         => Entries(loadLocalImages(storage'), id)
              = {[e EXCEPT !.syncStatus = "synced"] : e \in Entries(Replica, id)}]_vars

\* The pending entries of the list a call read for which the comparator saw
\* a server record that is newer (Newer) or not newer (NotNewer).
PendingNewer(c) ==
  {e \in PendingAtStart(c) :
     \E r \in Entries(calls[c].response.serverImages, e.id) : r.updatedAt > e.lastModified}
PendingNotNewer(c) ==
  {e \in PendingAtStart(c) :
     \E r \in Entries(calls[c].response.serverImages, e.id) : r.updatedAt <= e.lastModified}

ConflictsFor(c, id) ==
  {calls[c].response.body.conflicts[k] :
     k \in {j \in 1..Len(calls[c].response.body.conflicts) :
              calls[c].response.body.conflicts[j].id = id}}

\* C6: for a record pending at T whose server record has updatedAt > T, a
\* successful round reports the conflict (one entry, local timestamp T, remote
\* timestamp the server's updatedAt; the count is the number of such
\* records), does not download the record, and leaves it synced with its
\* local content.
C6_ConflictSurfacedLocalKept ==
  \A c \in Slots : Succeeded(c) =>
    /\ calls[c].result.conflicts = Cardinality(PendingNewer(c))
    /\ \A e \in PendingNewer(c) :
         /\ \E r \in Entries(calls[c].response.serverImages, e.id) :
              ConflictsFor(c, e.id) =
                {[id |-> e.id, server |-> r, serverUpdatedAt |-> r.updatedAt,
                  localLastModified |-> e.lastModified]}
         /\ e.id \notin IdsOf(calls[c].response.body.addedOrUpdated)
         /\ Entries(Replica, e.id) = {[e EXCEPT !.syncStatus = "synced"]}

\* A round has succeeded with exactly one such record.
C6_Witness ==
  \E c \in Slots : Succeeded(c) /\ Cardinality(PendingNewer(c)) = 1
                     /\ calls[c].result.conflicts = 1

\* C7: for a record pending at T whose server record has updatedAt <= T, a
\* successful round names the id in none of the three lists, counts the
\* record in uploaded, and leaves it synced.
C7_LocalWinsWithoutConflict ==
  \A c \in Slots : Succeeded(c) =>
    /\ calls[c].result.uploaded = Cardinality(PendingAtStart(c))
    /\ \A e \in PendingNotNewer(c) :
         /\ e.id \notin IdsOf(calls[c].response.body.addedOrUpdated)
         /\ e.id \notin IdsOf(calls[c].response.body.conflicts)
         /\ \A k \in 1..Len(calls[c].response.body.removed) :
              calls[c].response.body.removed[k] # e.id
         /\ Entries(Replica, e.id) = {[e EXCEPT !.syncStatus = "synced"]}

\* A round has succeeded for a record pending at the very time of the server
\* record's updatedAt.
C7_Witness ==
  \E c \in Slots : Succeeded(c) /\ calls[c].result.uploaded = 1 /\
    \E e \in PendingAtStart(c) :
      \E r \in Entries(calls[c].response.serverImages, e.id) : r.updatedAt = e.lastModified

\* The entries of the list a call read whose id the comparator did not find
\* in the authoritative set.
AbsentRemotely(c) ==
  {calls[c].localImages[k] :
     k \in {j \in 1..Len(calls[c].localImages) :
              calls[c].localImages[j].id \notin IdsOf(calls[c].response.serverImages)}}

\* C8: after a successful round, an entry whose id is absent from the
\* authoritative set is gone if it was synced (or conflict) at the start and
\* is still there if it was pending.
C8_RemovalSafety ==
  \A c \in Slots : Succeeded(c) =>
    \A e \in AbsentRemotely(c) :
      IF e.syncStatus = "pending"
      THEN e.id \in IdsOf(Replica)
      ELSE e.id \notin IdsOf(Replica)

\* A round has succeeded that removed a synced entry absent remotely.
C8_Witness ==
  \E c \in Slots : Succeeded(c) /\
    \E e \in AbsentRemotely(c) : e.syncStatus = "synced" /\ e.id \notin IdsOf(Replica)

\* C9: an entry that was marked pending, that no local operation has touched
\* since, and whose id is absent from the authoritative set, is not removed
\* by a round.
C9_MarkedAbsentNeverRemoved ==
  [][\A c \in Slots : (ResumeStep(c) /\ calls[c].response.kind = "ok") =>
       \A id \in Ids :
         ( /\ hist[id] # "none"
           /\ id \notin IdsOf(calls[c].response.serverImages)
           /\ Entries(Replica, id) # {}
           /\ Entries(Replica, id) = Entries(calls[c].localImages, id) )
         => id \in IdsOf(loadLocalImages(storage'))]_vars

\* C10: an entry that a round kept against a newer server record, with the
\* server record unchanged and no local operation on the entry since, keeps
\* its local content in every later round.
C10_LocalVersionKept ==
  [][\A c \in Slots : (ResumeStep(c) /\ calls[c].response.kind = "ok") =>
       \A id \in Ids :
         ( /\ hist[id] = "won"
           /\ Entries(Replica, id) # {}
           /\ Entries(Replica, id) = Entries(calls[c].localImages, id) )
         => {Content(e) : e \in Entries(loadLocalImages(storage'), id)}
              = {Content(e) : e \in Entries(Replica, id)}]_vars

\* The entries of the list a call read that are pending and that the response
\* names neither in addedOrUpdated nor in removed.
PendingLeft(c) ==
  {k \in 1..Len(calls[c].localImages) :
     /\ calls[c].localImages[k].syncStatus = "pending"
     /\ calls[c].localImages[k].id \notin IdsOf(calls[c].response.body.addedOrUpdated)
     /\ \A j \in 1..Len(calls[c].response.body.removed) :
          calls[c].response.body.removed[j] # calls[c].localImages[k].id}

\* The authoritative records for which the list a call read had no entry.
NewRemotely(c) ==
  {r \in {calls[c].response.serverImages[k] : k \in 1..Len(calls[c].response.serverImages)} :
     r.id \notin IdsOf(calls[c].localImages)}

\* C12: a successful round returns downloaded = the number of addedOrUpdated
\* entries, conflicts = the number of conflict entries and uploaded = the
\* number of records still pending once addedOrUpdated and removed have been
\* applied; every authoritative record that had no local entry is in the
\* replica afterwards, synced.
C12_SuccessfulRoundReport ==
  \A c \in Slots : Succeeded(c) =>
    /\ calls[c].result.downloaded = Len(calls[c].response.body.addedOrUpdated)
    /\ calls[c].result.conflicts = Len(calls[c].response.body.conflicts)
    /\ calls[c].result.uploaded = Cardinality(PendingLeft(c))
    /\ \A r \in NewRemotely(c) :
         Entries(Replica, r.id) =
           {[id |-> r.id, updatedAt |-> r.updatedAt, rev |-> r.rev,
             lastModified |-> r.updatedAt, syncStatus |-> "synced"]}

\* A round has succeeded that downloaded a record new to the replica and
\* resolved a pending one.
C12_Witness ==
  \E c \in Slots : Succeeded(c) /\ NewRemotely(c) # {}
                     /\ calls[c].result.downloaded = 1 /\ calls[c].result.uploaded = 1

\* C14: when a round started through handleSync fails, the replica after
\* handleSync has finished, the refresh it triggers included, is the replica
\* from before the round: the refresh of a failed round, finding the replica
\* as the round read it, leaves it so.
C14_FailedSyncRefreshLeavesReplica ==
  [][\A i \in 1..Len(fetches) :
       ( /\ fetches[i].afterFailed # <<>>
         /\ fetches' = splice(fetches, i)
         /\ Replica = fetches[i].afterFailed[1] )
       => loadLocalImages(storage') = Replica]_vars

----------------------------------------------------------------------------
\* Properties of the exports called directly (SpecApi).

\* The last call was op.
Called(op) == api.op = op

\* C11: whenever syncWithServer returns success = false (fetch rejected, the
\* response not ok, its body unparseable or not of the expected shape), the
\* result has an error message and uploaded = 0, downloaded = 0, conflicts = 0.
C11_FailureReportsZeroCounts ==
  (Called("syncWithServer") /\ ~api.ret[1].success) =>
    /\ api.ret[1].error # ""
    /\ api.ret[1].uploaded = 0
    /\ api.ret[1].downloaded = 0
    /\ api.ret[1].conflicts = 0

\* A step that is a direct call of op.
CallStep(op) == events' = events + 1 /\ api'.op = op

\* C13: every outcome of syncWithServer is all-or-nothing: it reports
\* success = true and the images key and the lastSync key hold what the round
\* wrote, or it reports success = false and neither key has changed; also
\* when a write to the storage fails.
C13_RoundAllOrNothing ==
  [][CallStep("syncWithServer") =>
       \/ /\ api'.ret[1].success
          /\ storage' = api'.writes[1]
          /\ lastSync' = api'.writes[2]
       \/ /\ ~api'.ret[1].success
          /\ storage' = storage
          /\ lastSync' = lastSync]_vars

\* What a call of updateLocalImage(image) leaves, given the lastModified of
\* the stored entry: the entry takes the place of the one with its id, or
\* comes last; the entries with another id stay where and what they were.
UpsertLeaves(before, after, image, lastModified) ==
  LET k == findIndex(before, image.id, 1)
      entry == [id |-> image.id, updatedAt |-> image.updatedAt, rev |-> image.rev,
                lastModified |-> lastModified, syncStatus |-> "synced"]
  IN /\ Len(after) = IF k = 0 THEN Len(before) + 1 ELSE Len(before)
     /\ after[IF k = 0 THEN Len(after) ELSE k] = entry
     /\ \A j \in 1..Len(before) : j # k => after[j] = before[j]

C16_MarkPendingFrame ==
  [][CallStep("markImagePending") =>
       LET after == loadLocalImages(storage')
           k == findIndex(Replica, api'.arg[1], 1)
       IN /\ api'.ret = <<>>
          /\ k = 0 => storage' = storage
          /\ (k # 0 /\ Writable(storage)) =>
               /\ Len(after) = Len(Replica)
               /\ after[k] = [Replica[k] EXCEPT !.syncStatus = "pending",
                                                !.lastModified = now']
               /\ \A j \in 1..Len(Replica) : j # k => after[j] = Replica[j]]_vars

\* markImagePending has marked one of two entries, stored earlier.
C16_Witness ==
  /\ Called("markImagePending")
  /\ Len(Replica) = 2
  /\ \E k \in 1..2 :
       /\ Replica[k].id = api.arg[1]
       /\ Replica[k].syncStatus = "pending" /\ Replica[k].lastModified = now
       /\ Replica[3 - k].syncStatus = "synced" /\ Replica[3 - k].lastModified < now

\* C17: removeLocalImage(id) deletes the entry with that id if there is one
\* and leaves the other entries, their order and their content, unchanged;
\* when no entry has that id the replica's records are unchanged.
C17_RemoveFrame ==
  [][(CallStep("removeLocalImage") /\ Writable(storage)) =>
       LET after == loadLocalImages(storage')
           other(img) == img.id # api'.arg[1]
       IN /\ api'.arg[1] \notin IdsOf(after)
          /\ after = SelectSeq(Replica, other)
          /\ api'.arg[1] \notin IdsOf(Replica) => after = Replica]_vars

\* The first call was removeLocalImage(1) on a replica of two entries.
C17_Witness ==
  /\ Called("removeLocalImage")
  /\ events = 1
  /\ api.arg[1] = 1
  /\ Len(Replica) = 1 /\ Replica[1].id = 2

\* C18: loadLocalImages never fails: when the key is absent, holds text that
\* is not JSON or JSON that is not an array, or when reading it throws, the
\* call returns the empty list; from an array it returns the entries, those
\* without syncStatus as synced.
C18_LoadNeverFails ==
  Called("loadLocalImages") =>
    /\ Len(api.ret) = 1
    /\ storage.json \in {"absent", "invalid", "nonarray", "throws"} => api.ret[1] = <<>>
    /\ storage.json = "array" =>
         /\ Len(api.ret[1]) = Len(storage.items)
         /\ \A k \in 1..Len(storage.items) :
              /\ Content(api.ret[1][k]) = Content(storage.items[k])
              /\ api.ret[1][k].lastModified = storage.items[k].lastModified
              /\ api.ret[1][k].syncStatus # ""
              /\ storage.items[k].syncStatus = "" => api.ret[1][k].syncStatus = "synced"
              /\ storage.items[k].syncStatus # "" =>
                   api.ret[1][k].syncStatus = storage.items[k].syncStatus

\* loadLocalImages has returned from a key that holds a JSON object.
C18_Witness ==
  /\ Called("loadLocalImages")
  /\ storage.json = "nonarray" /\ storage.items # <<>>
  /\ api.ret = << <<>> >>

\* C19: getSyncStatus returns total = the number of replica records, pending
\* and conflicts = the numbers of those with that syncStatus, and lastSync =
\* the stored marker, or null when there is none; it changes neither key; and
\* the marker is stored by successful rounds only, so that it is null as long
\* as no round has succeeded.
C19_StatusSummary ==
  [][/\ CallStep("getSyncStatus") =>
          LET isPending(img) == img.syncStatus = "pending"
              isConflict(img) == img.syncStatus = "conflict"
          IN /\ storage' = storage
             /\ lastSync' = lastSync
             /\ api'.ret[1].total = Len(Replica)
             /\ api'.ret[1].pending = Len(SelectSeq(Replica, isPending))
             /\ api'.ret[1].conflicts = Len(SelectSeq(Replica, isConflict))
             /\ api'.ret[1].lastSync = lastSync
     /\ lastSync' # lastSync =>
          CallStep("syncWithServer") /\ api'.ret[1].success /\ lastSync' = <<now'>>]_vars

\* getSyncStatus has returned, after a successful round, for a replica that
\* holds a conflict entry.
C19_Witness ==
  /\ Called("getSyncStatus")
  /\ api.ret[1].lastSync = <<now>>
  /\ api.ret[1].conflicts = 1
  /\ api.ret[1].total >= 1

\* C20: starting from a replica without duplicate ids, after any sequence of
\* updateLocalImage, markImagePending, removeLocalImage and syncWithServer
\* calls (also a round whose addedOrUpdated names an id more than once) the
\* stored replica holds at most one entry per id.
C20_OneEntryPerId ==
  /\ Cardinality(IdsOf(Replica)) = Len(Replica)
  /\ Cardinality(IdsOf(storage.items)) = Len(storage.items)

\* A round whose addedOrUpdated named an id twice has been applied and stored.
C20_Witness ==
  /\ Called("syncWithServer")
  /\ api.arg[1] = "ok" /\ api.arg[2]
  /\ api.ret[1].success /\ api.ret[1].downloaded = 2
  /\ storage = api.writes[1]
  /\ Replica # <<>>

\* C21: a call of updateLocalImage or markImagePending never lowers the
\* lastModified of the entry it is called for: an entry the replica held before
\* the call has, after the call, a lastModified at least as large.
C21_LastModifiedNeverDecreases ==
  [][(CallStep("updateLocalImage") \/ CallStep("markImagePending")) =>
       LET id == IF api'.op = "updateLocalImage" THEN api'.arg[1].id ELSE api'.arg[1]
       IN \A old \in Entries(Replica, id) :
            \A new \in Entries(loadLocalImages(storage'), id) :
              new.lastModified >= old.lastModified]_vars

----------------------------------------------------------------------------
\* Properties of the comparator (SpecSync).

\* The last request was answered with the three lists.
Answered == Called("POST /sync") /\ api.ret[1].status = 200

Sent == api.arg[1]
Found == api.arg[2]
Body == api.ret[1].body

Range(seq) == {seq[i] : i \in 1..Len(seq)}

\* The summaries sent for an id.
Summaries(id) == {s \in Range(Sent) : s.id = id}

\* C22: the comparator lists an authoritative record R in addedOrUpdated
\* exactly when no summary has R's id, or the summary with R's id is not
\* pending and R.updatedAt is greater than its lastModified; the list holds
\* nothing but records of the catalog.
C22_AddedOrUpdatedExactly ==
  Answered =>
    /\ \A R \in server :
         (buildImageResponse(R) \in Range(Body.addedOrUpdated)) <=>
           \/ Summaries(R.id) = {}
           \/ \E s \in Summaries(R.id) :
                s.syncStatus # "pending" /\ R.updatedAt > s.lastModified
    /\ Range(Body.addedOrUpdated) \subseteq {buildImageResponse(R) : R \in server}

\* A request with a record that has no summary and a record whose summary is
\* synced and older; both are listed.
C22_Witness ==
  /\ Answered
  /\ Len(Body.addedOrUpdated) = 2
  /\ \E s \in Range(Sent) :
       s.id \in IdsOf(Found) /\ s.syncStatus = "synced" /\ s.lastModified = 0

\* C23: the comparator emits a conflict entry for R exactly when the summary
\* with R's id is pending and R.updatedAt is greater than its lastModified; a
\* pending summary whose lastModified is at least R.updatedAt leaves R's id
\* out of all three lists.
C23_ConflictExactly ==
  Answered =>
    \A R \in server :
      /\ (\E e \in Range(Body.conflicts) : e.id = R.id) <=>
           \E s \in Summaries(R.id) :
             s.syncStatus = "pending" /\ R.updatedAt > s.lastModified
      /\ \A e \in Range(Body.conflicts) :
           e.id = R.id =>
             /\ e.server = buildImageResponse(R)
             /\ e.serverUpdatedAt = R.updatedAt
             /\ \E s \in Summaries(R.id) : e.localLastModified = s.lastModified
      /\ (\E s \in Summaries(R.id) :
            s.syncStatus = "pending" /\ s.lastModified >= R.updatedAt) =>
           /\ R.id \notin IdsOf(Body.addedOrUpdated)
           /\ R.id \notin Range(Body.removed)
           /\ R.id \notin IdsOf(Body.conflicts)

\* An answer with a conflict entry for one record and nothing for another,
\* whose pending summary is as new as the record.
C23_Witness ==
  /\ Answered
  /\ Len(Body.conflicts) = 1
  /\ \E s \in Range(Sent) :
       s.id \in IdsOf(Found) /\ s.syncStatus = "pending" /\ s.lastModified = 1

\* C24: the comparator lists an id in removed exactly when a summary with
\* that id was sent, no authoritative record has the id, and the summary is
\* not pending.
C24_RemovedExactly ==
  Answered =>
    \A id \in ApiIds \cup Range(Body.removed) :
      (id \in Range(Body.removed)) <=>
        /\ id \notin {R.id : R \in server}
        /\ \E s \in Summaries(id) : hasNumericId(s) /\ s.syncStatus # "pending"

\* Two summaries without a record, one pending and kept, one not and removed.
C24_Witness ==
  /\ Answered
  /\ Len(Body.removed) = 1
  /\ \E s \in Range(Sent) : s.syncStatus = "pending" /\ s.id \notin IdsOf(Found)
                            /\ hasNumericId(s)

\* The three lists of a body as sets.
AsSets(body) ==
  [addedOrUpdated |-> Range(body.addedOrUpdated),
   removed |-> Range(body.removed),
   conflicts |-> Range(body.conflicts)]

\* A POST /sync that is answered with the three lists.
AnswerOfPost == api'.op = "POST /sync" /\ api'.ret[1].status = 200

C26_MalformedSummaryFiltered ==
  (Called("POST /sync") /\ Len(api.arg) = 2 /\ NoId \in IdsOf(Sent)) =>
    /\ api.ret[1].status = 200
    /\ NoId \notin IdsOf(Body.addedOrUpdated)
    /\ NoId \notin Range(Body.removed)
    /\ NoId \notin IdsOf(Body.conflicts)
    /\ Body = syncEndpoint(Found, SelectSeq(Sent, LAMBDA s : s.id # NoId))

\* A summary without id sent ahead of a summary that is removed.
C26_Witness ==
  /\ Answered
  /\ Len(Sent) = 2 /\ Sent[1].id = NoId /\ Sent[1].syncStatus = "synced"
  /\ Body.removed = <<Sent[2].id>>

----------------------------------------------------------------------------
\* Properties of the exported functions, continued (SpecApi, SpecAnomaly).

\* C27: a record without an id in the addedOrUpdated list that syncWithServer
\* receives is filtered out: the round succeeds and the replica it stores
\* holds no entry without an id.
C27_AnonymousRecordFiltered ==
  (Called("syncWithServer") /\ api.arg[1] = "ok" /\ api.arg[3]) =>
    /\ api.ret[1].success
    /\ NoId \notin IdsOf(loadLocalImages(api.writes[1]))

----------------------------------------------------------------------------
\* Properties of the Gallery (Spec), continued.

\* The .then or the .catch of a fetchImages() runs.
RefreshStep == Len(fetches') = Len(fetches) - 1

\* C28: the Gallery's refresh (fetchImages, updateLocalImage for every record
\* of GET /images) leaves every pending entry of the replica as it is: still
\* pending, with the content and the lastModified it had.
C28_RefreshKeepsPending ==
  [][RefreshStep =>
       \A k \in 1..Len(Replica) :
         Replica[k].syncStatus = "pending" =>
           Replica[k] \in Entries(loadLocalImages(storage'), Replica[k].id)]_vars

\* C29: every sync round that handleSync starts ends, and the reentrancy
\* guard is released: whether the round succeeds or fails, its slot is idle
\* again and syncing is false, so that handleSync can start another round.
C29_RoundEndsAndReleasesGuard ==
  \A c \in Slots : (calls[c].pc = "sent") ~> (calls[c].pc = "idle" /\ ~syncing)

\* A failed round has ended (its refresh is still under way) and the guard
\* is released.
C29_Witness ==
  /\ ~syncing
  /\ \A c \in Slots : calls[c].pc = "idle"
  /\ \E i \in 1..Len(fetches) : fetches[i].afterFailed # <<>>

\* C30: no operation stores the status 'conflict': the replica of a Gallery
\* that started without a conflict entry never holds one, and getSyncStatus()
\* reports conflicts = 0 in every state, also right after a round that
\* reported conflicts > 0.
C30_NoConflictStatusStored ==
  /\ \A k \in 1..Len(Replica) : Replica[k].syncStatus # "conflict"
  /\ getSyncStatus(storage, lastSync).conflicts = 0

\* A round has just returned with a conflict counted, the entry that won it
\* stored as synced.
C30_Witness ==
  \E c \in Slots :
    /\ Succeeded(c)
    /\ calls[c].result.conflicts > 0
    /\ \E k \in 1..Len(Replica) :
         /\ Replica[k].syncStatus = "synced"
         /\ \E e \in Range(calls[c].response.body.conflicts) : e.id = Replica[k].id
    /\ getSyncStatus(storage, lastSync).conflicts = 0

====
